---------------------------- MODULE Spec2Model ----------------------------
(***************************************************************************)
(* Model of hachoir_metadata/video.py: the metadata extractors for         *)
(* Matroska (MkvMetadata), Flash video (FlvMetadata), QuickTime            *)
(* (MovMetadata) and ASF (AsfMetadata).                                    *)
(*                                                                         *)
(* An extraction is a run of one extractor over one field tree.  The field *)
(* tree is the input (variable tree); the record under construction is     *)
(* meta (attribute -> ordered candidate values) with its stream groups in  *)
(* groups.  Text is a tuple of one-character strings, so that formatting,  *)
(* prefix stripping and prefix tests are computed and not assumed.         *)
(***************************************************************************)
EXTENDS Integers, Sequences, FiniteSets, TLC

VARIABLES
    fmt,      \* which extractor runs: "mkv", "flv", "mov" or "asf"
    tree,     \* the field tree handed to extract()
    pc,       \* position inside extract()
    outcome,  \* "running", "ok", "HachoirError" or "MissingField"
    meta,     \* the record: attribute name -> sequence of candidate values
    groups,   \* the stream groups, in the order addGroup appended them
    pos,      \* loop positions of the running extractor
    loc       \* local variables of the running extractor

vars == <<fmt, tree, pc, outcome, meta, groups, pos, loc>>

---------------------------------------------------------------------------
\* Bounds of the model.

\* Longest TrackEntry array of the multi-track inputs.
MaxTracks == 3
\* Largest number of Segment elements of a Matroska tree.
MaxSegments == 2
\* Longest array of ASF extended content descriptors.
MaxDescriptors == 3
\* Longest ASF stream_prop array, and longest bit_rate array.
MaxStreams == 3
\* Longest FLV side-channel item array.
MaxItems == 2

---------------------------------------------------------------------------
\* Values.  Every value carries its Python type in field t.

StrV(s) == [t |-> "str", v |-> s]
IntV(n) == [t |-> "int", v |-> n]
BoolV(b) == [t |-> "bool", v |-> b]
Timedelta(us) == [t |-> "timedelta", v |-> us]
Datetime(x) == [t |-> "datetime", v |-> x]

Range(s) == {s[i] : i \in 1..Len(s)}

---------------------------------------------------------------------------
\* The record and group model (hachoir_metadata.metadata).

AttrKeys ==
    {"title", "url", "copyright", "creation_date", "subtitle_author",
     "duration", "producer", "language", "compression", "width", "height",
     "sample_rate", "nb_channel", "bits_per_sample", "bits_per_pixel",
     "frame_rate", "format_version", "bit_rate", "last_modification",
     "comment", "author", "album", "track_number"}

\* Metadata(): a record with no candidate for any attribute.
EmptyMeta == [k \in AttrKeys |-> <<>>]

\* A value that setAttribute drops: None or the empty text.
IsEmpty(x) == x.t = "none" \/ (x.t = "str" /\ x.v = <<>>)

\* setattr(meta, key, value): append a non-empty candidate, ignore a duplicate.
setAttribute(m, key, value) ==
    IF IsEmpty(value) \/ value \in Range(m[key])
    THEN m
    ELSE [m EXCEPT ![key] = Append(@, value)]

has(m, key) == Len(m[key]) > 0

\* get(key): the best current value; the later candidate wins.
get(m, key) == m[key][Len(m[key])]

\* A group key "name[]" (auto-indexed), "name[i]" or plain "name".
AutoKey(base) == [base |-> base, auto |-> TRUE, idx |-> 0]
IndexedKey(base, i) == [base |-> base, auto |-> FALSE, idx |-> i]
PlainKey(base) == [base |-> base, auto |-> FALSE, idx |-> -1]

GroupsOf(g, base) == SelectSeq(g, LAMBDA e : e.base = base)

\* addGroup(key, metadata): append the child record; a key ending in "[]"
\* takes the next index of its name, counted from 0.
addGroup(g, key, rec) ==
    Append(g, [base |-> key.base,
               idx  |-> IF key.auto THEN Len(GroupsOf(g, key.base)) ELSE key.idx,
               rec  |-> rec])

---------------------------------------------------------------------------
\* Text constants.

T_und == <<"u", "n", "d">>
T_mis == <<"m", "i", "s">>
T_eng == <<"e", "n", "g">>
T_English == <<"E", "n", "g", "l", "i", "s", "h">>
T_video == <<"v", "i", "d", "e", "o">>
T_audio == <<"a", "u", "d", "i", "o">>
T_subtitle == <<"s", "u", "b", "t", "i", "t", "l", "e">>
T_buttons == <<"b", "u", "t", "t", "o", "n", "s">>
T_A == <<"A">>
T_B == <<"B">>
T_TITLE == <<"T", "I", "T", "L", "E">>
T_URL == <<"U", "R", "L">>
T_COPYRIGHT == <<"C", "O", "P", "Y", "R", "I", "G", "H", "T">>
T_DATE_RECORDED == <<"D", "A", "T", "E", "_", "R", "E", "C", "O", "R", "D", "E", "D">>
T_SUBTITLE == <<"S", "U", "B", "T", "I", "T", "L", "E">>
T_ARTIST == <<"A", "R", "T", "I", "S", "T">>

T_ToolName == <<"T", "o", "o", "l", "N", "a", "m", "e">>
T_ToolVersion == <<"T", "o", "o", "l", "V", "e", "r", "s", "i", "o", "n">>
T_IsVBR == <<"I", "s", "V", "B", "R">>
T_Encoder == <<"E", "n", "c", "o", "d", "e", "r">>
T_AlbumTitle == <<"A", "l", "b", "u", "m", "T", "i", "t", "l", "e">>
T_Track == <<"T", "r", "a", "c", "k">>
T_TrackNumber == <<"T", "r", "a", "c", "k", "N", "u", "m", "b", "e", "r">>
T_Year == <<"Y", "e", "a", "r">>
T_WMFSDKNeeded == <<"W", "M", "F", "S", "D", "K", "N", "e", "e", "d", "e", "d">>
T_WMFSDKVersion == <<"W", "M", "F", "S", "D", "K", "V", "e", "r", "s", "i", "o", "n">>
T_BufferAverage == <<"B", "u", "f", "f", "e", "r", " ", "A", "v", "e", "r", "a", "g", "e">>
T_VBRPeak == <<"V", "B", "R", " ", "P", "e", "a", "k">>
T_WM_ToolName == <<"W", "M", "/", "T", "o", "o", "l", "N", "a", "m", "e">>
T_WM_ToolVersion == <<"W", "M", "/", "T", "o", "o", "l", "V", "e", "r", "s", "i", "o", "n">>
T_WM_Encoder == <<"W", "M", "/", "E", "n", "c", "o", "d", "e", "r">>
T_WM_TrackNumber == <<"W", "M", "/", "T", "r", "a", "c", "k", "N", "u", "m", "b", "e", "r">>
T_Foo == <<"F", "o", "o">>
T_Bar == <<"B", "a", "r">>
T_Pic == <<"P", "i", "c">>
T_X == <<"X">>
T_1 == <<"1">>
T_E == <<"E">>
T_9 == <<"9">>
T_True == <<"T", "r", "u", "e">>
T_False == <<"F", "a", "l", "s", "e">>
T_version_open == <<" ", "(", "v", "e", "r", "s", "i", "o", "n", " ">>
T_close == <<")">>
T_equals == <<"=">>
T_VBR_open == <<"V", "B", "R", " ", "(">>
T_max_close == <<" ", "m", "a", "x", ")">>
T_CBR == <<" ", "(", "C", "B", "R", ")">>
T_max == <<" ", "(", "m", "a", "x", ")">>
T_IsSeekable == <<"I", "s", " ", "s", "e", "e", "k", "a", "b", "l", "e">>
T_128Kbit == <<"1", "2", "8", ".", "0", " ", "K", "b", "i", "t", "/", "s", "e", "c">>
T_paren_open == <<" ", "(">>

T_duration == <<"d", "u", "r", "a", "t", "i", "o", "n">>
T_creator == <<"c", "r", "e", "a", "t", "o", "r">>
T_audiosamplerate == <<"a", "u", "d", "i", "o", "s", "a", "m", "p", "l", "e", "r", "a", "t", "e">>
T_framerate == <<"f", "r", "a", "m", "e", "r", "a", "t", "e">>
T_metadatacreator == <<"m", "e", "t", "a", "d", "a", "t", "a", "c", "r", "e", "a", "t", "o", "r">>
T_metadatadate == <<"m", "e", "t", "a", "d", "a", "t", "a", "d", "a", "t", "e">>
T_width == <<"w", "i", "d", "t", "h">>
T_height == <<"h", "e", "i", "g", "h", "t">>
T_canSeekToEnd == <<"c", "a", "n", "S", "e", "e", "k", "T", "o", "E", "n", "d">>
T_MP3 == <<"M", "P", "3">>
T_Nellymoser == <<"N", "e", "l", "l", "y", "m", "o", "s", "e", "r">>
T_MPEG1Layer3 == <<"M", "P", "E", "G", "-", "1", " ", "L", "a", "y", "e", "r", " ", "3">>
T_H263 == <<"S", "o", "r", "e", "n", "s", "e", "n", " ", "H", ".", "2", "6", "3">>
T_FlashVideo == <<"M", "a", "c", "r", "o", "m", "e", "d", "i", "a", " ", "F", "l", "a", "s", "h", " ", "v", "i", "d", "e", "o", " ", "v", "e", "r", "s", "i", "o", "n", " ", "1">>
T_PlaySpeed == <<"P", "l", "a", "y", " ", "s", "p", "e", "e", "d", ":", " ">>
T_UserVolume == <<"U", "s", "e", "r", " ", "v", "o", "l", "u", "m", "e", ":", " ">>
T_percent == <<"%">>
T_dot == <<".">>
T_date1 == <<"2", "0", "0", "4", "-", "0", "1", "-", "0", "1">>
T_date2 == <<"2", "0", "0", "5", "-", "0", "2", "-", "0", "2">>

Digit(n) == CASE n = 0 -> "0" [] n = 1 -> "1" [] n = 2 -> "2" [] n = 3 -> "3"
              [] n = 4 -> "4" [] n = 5 -> "5" [] n = 6 -> "6" [] n = 7 -> "7"
              [] n = 8 -> "8" [] n = 9 -> "9"

\* "%u" / "%s" of a natural number.
RECURSIVE Decimal(_)
Decimal(n) == IF n < 10 THEN <<Digit(n)>> ELSE Decimal(n \div 10) \o <<Digit(n % 10)>>

---------------------------------------------------------------------------
\* Matroska field trees.
\*
\* A tree is [segments |-> sequence of Segment]; a Segment is the sequence of
\* its child fields; a field is an Info, Tags or Tracks element or something
\* else.  A TrackEntry, an Info and a SimpleTag list the paths present in
\* them in field has; reading a path that is absent raises MissingField.

TrackPaths ==
    {"TrackType", "Name", "Language", "CodecID", "Video", "PixelWidth",
     "PixelHeight", "Audio", "SamplingFrequency", "Channels"}

\* A child path is present only inside a present parent.
WellFormedTrack(hs) ==
    /\ ({"PixelWidth", "PixelHeight"} \cap hs # {} => "Video" \in hs)
    /\ ({"SamplingFrequency", "Channels"} \cap hs # {} => "Audio" \in hs)

LangDisplay(l) == IF l = T_eng THEN T_English ELSE l

\* TrackEntry number id: its values differ from those of every other entry.
\* SamplingFrequency is a float, kept in thousandths of a hertz.
MkTrack(ty, hs, lang, id) ==
    [ty |-> ty, has |-> hs,
     name |-> <<"T", Digit(id)>>,
     lang |-> lang, langDisplay |-> LangDisplay(lang),
     codec |-> <<"C", Digit(id)>>,
     width |-> 640 + id, height |-> 480 + id,
     freq |-> 44100000 + 500 * id, channels |-> id]

InfoPaths == {"Duration", "TimecodeScale", "DateUTC", "WritingApp", "MuxingApp", "Title"}

InfoField(info) == [kind |-> "Info", info |-> info]
TagsField(tags) == [kind |-> "Tags", tags |-> tags]
TracksField(entries) == [kind |-> "Tracks", entries |-> entries]
OtherField == [kind |-> "Other"]

---------------------------------------------------------------------------
\* MkvMetadata.

\* tag_key: the tag names that map to an attribute.
tag_key ==
    (T_TITLE :> "title") @@ (T_URL :> "url") @@ (T_COPYRIGHT :> "copyright")
    @@ (T_DATE_RECORDED :> "creation_date") @@ (T_SUBTITLE :> "subtitle_author")

\* dateToDatetime: the UTC date field as a timestamp.
dateToDatetime(raw) == Datetime(raw)

\* int(float) of a non-negative float kept in thousandths.
IntOfFloat(milli) == milli \div 1000

trackCommon(track, m) ==
    LET m1 == IF "Name" \in track.has
              THEN setAttribute(m, "title", StrV(track.name)) ELSE m
    IN  IF "Language" \in track.has /\ track.lang \notin {T_mis, T_und}
        THEN setAttribute(m1, "language", StrV(track.langDisplay))
        ELSE m1

\* processVideo with the record created inside the try block: a MissingField
\* leaves the empty record.
videoRecordDropsPartial(track) ==
    LET m0 == trackCommon(track, EmptyMeta) IN
    IF "CodecID" \notin track.has THEN EmptyMeta ELSE
    LET m1 == setAttribute(m0, "compression", StrV(track.codec)) IN
    IF "Video" \notin track.has THEN m1 ELSE
    IF {"PixelWidth", "PixelHeight"} \subseteq track.has
    THEN setAttribute(setAttribute(m1, "width", IntV(track.width)),
                      "height", IntV(track.height))
    ELSE EmptyMeta

\* The record processVideo builds: each read of an absent path raises
\* MissingField, which ends the try block with what was set so far.
videoRecord(track) ==
    LET m0 == trackCommon(track, EmptyMeta) IN
    IF "CodecID" \notin track.has THEN m0 ELSE
    LET m1 == setAttribute(m0, "compression", StrV(track.codec)) IN
    IF "Video" \notin track.has THEN m1 ELSE
    IF "PixelWidth" \notin track.has THEN m1 ELSE
    LET m2 == setAttribute(m1, "width", IntV(track.width)) IN
    IF "PixelHeight" \notin track.has THEN m2 ELSE
    setAttribute(m2, "height", IntV(track.height))

processVideo(g, track) == addGroup(g, AutoKey("video"), videoRecord(track))

audioRecord(track) ==
    LET m0 == trackCommon(track, EmptyMeta)
        afterAudio(m) ==
            IF "CodecID" \notin track.has THEN m
            ELSE setAttribute(m, "compression", StrV(track.codec))
    IN
    IF "Audio" \notin track.has THEN afterAudio(m0) ELSE
    IF "SamplingFrequency" \notin track.has THEN m0 ELSE
    LET m1 == setAttribute(m0, "sample_rate", IntV(IntOfFloat(track.freq))) IN
    IF "Channels" \notin track.has THEN m1 ELSE
    afterAudio(setAttribute(m1, "nb_channel", IntV(track.channels)))

processAudio(g, track) == addGroup(g, AutoKey("audio"), audioRecord(track))

subtitleRecord(track) ==
    LET m0 == trackCommon(track, EmptyMeta) IN
    IF "CodecID" \notin track.has THEN m0
    ELSE setAttribute(m0, "compression", StrV(track.codec))

processSubtitle(g, track) == addGroup(g, AutoKey("subtitle"), subtitleRecord(track))

\* processTrack with a final else in place of the subtitle test.
processTrackElseSubtitle(g, track) ==
    IF "TrackType" \notin track.has THEN g
    ELSE IF track.ty = T_video THEN processVideo(g, track)
    ELSE IF track.ty = T_audio THEN processAudio(g, track)
    ELSE processSubtitle(g, track)

processTrack(g, track) ==
    IF "TrackType" \notin track.has THEN g
    ELSE IF track.ty = T_video THEN processVideo(g, track)
    ELSE IF track.ty = T_audio THEN processAudio(g, track)
    ELSE IF track.ty = T_subtitle THEN processSubtitle(g, track)
    ELSE g

processSimpleTag(m, tag) ==
    IF "TagName" \notin tag.has \/ "TagString" \notin tag.has THEN m
    ELSE IF tag.name \notin DOMAIN tag_key THEN m
    ELSE setAttribute(m, tag_key[tag.name], StrV(tag.string))

RECURSIVE processTag(_, _)
processTag(m, tag) ==
    IF tag = <<>> THEN m
    ELSE processTag(processSimpleTag(m, Head(tag)), Tail(tag))

RECURSIVE processTags(_, _)
processTags(m, tags) ==
    IF tags = <<>> THEN m
    ELSE processTags(processTag(m, Head(tags)), Tail(tags))

\* timedelta(seconds = ticks * scale * 1e-9), in microseconds.  The scales of
\* the inputs are whole microseconds, so the product is exact.
InfoDuration(ticks, scale) == Timedelta(ticks * (scale \div 1000))

processInfo(m, info) ==
    LET m1 == IF /\ "Duration" \in info.has
                 /\ "TimecodeScale" \in info.has
                 /\ 0 < info.duration
              THEN setAttribute(m, "duration",
                                InfoDuration(info.duration, info.scale))
              ELSE m
        m2 == IF "DateUTC" \in info.has
              THEN setAttribute(m1, "creation_date", dateToDatetime(info.date))
              ELSE m1
        m3 == IF "WritingApp" \in info.has
              THEN setAttribute(m2, "producer", StrV(info.wapp)) ELSE m2
        m4 == IF "MuxingApp" \in info.has
              THEN setAttribute(m3, "producer", StrV(info.mapp)) ELSE m3
    IN  IF "Title" \in info.has
        THEN setAttribute(m4, "title", StrV(info.title)) ELSE m4

CurSegment == tree.segments[pos.seg]
CurField == CurSegment[pos.fld]
AtField(kind) ==
    /\ fmt = "mkv" /\ pc = "segment"
    /\ pos.fld <= Len(CurSegment)
    /\ CurField.kind = kind
NextField == [pos EXCEPT !.fld = @ + 1, !.idx = 1]

\* extract() without the test for Segment[0].
MkvExtractNoCheck ==
    /\ fmt = "mkv" /\ pc = "start"
    /\ IF Len(tree.segments) = 0
       THEN pc' = "done" /\ outcome' = "ok"
       ELSE pc' = "segment" /\ outcome' = outcome
    /\ UNCHANGED <<fmt, tree, meta, groups, pos, loc>>

\* extract(): no Segment[0] raises HachoirError; else the segments are walked.
MkvExtract ==
    /\ fmt = "mkv" /\ pc = "start"
    /\ IF Len(tree.segments) = 0
       THEN pc' = "done" /\ outcome' = "HachoirError"
       ELSE pc' = "segment" /\ outcome' = outcome
    /\ UNCHANGED <<fmt, tree, meta, groups, pos, loc>>

MkvProcessInfo ==
    /\ AtField("Info")
    /\ meta' = processInfo(meta, CurField.info)
    /\ pos' = NextField
    /\ UNCHANGED <<fmt, tree, pc, outcome, groups, loc>>

MkvProcessTags ==
    /\ AtField("Tags")
    /\ meta' = processTags(meta, CurField.tags)
    /\ pos' = NextField
    /\ UNCHANGED <<fmt, tree, pc, outcome, groups, loc>>

\* processTracks: one TrackEntry per step.
MkvProcessTrack ==
    /\ AtField("Tracks")
    /\ pos.idx <= Len(CurField.entries)
    /\ groups' = processTrack(groups, CurField.entries[pos.idx])
    /\ pos' = [pos EXCEPT !.idx = @ + 1]
    /\ UNCHANGED <<fmt, tree, pc, outcome, meta, loc>>

MkvTracksEnd ==
    /\ AtField("Tracks")
    /\ pos.idx > Len(CurField.entries)
    /\ pos' = NextField
    /\ UNCHANGED <<fmt, tree, pc, outcome, meta, groups, loc>>

MkvSkipField ==
    /\ AtField("Other")
    /\ pos' = NextField
    /\ UNCHANGED <<fmt, tree, pc, outcome, meta, groups, loc>>

\* The end of one segment: on to the next, or extract() returns.
MkvSegmentEnd ==
    /\ fmt = "mkv" /\ pc = "segment"
    /\ pos.fld > Len(CurSegment)
    /\ IF pos.seg < Len(tree.segments)
       THEN /\ pos' = [seg |-> pos.seg + 1, fld |-> 1, idx |-> 1]
            /\ UNCHANGED <<pc, outcome>>
       ELSE /\ pc' = "done" /\ outcome' = "ok"
            /\ UNCHANGED pos
    /\ UNCHANGED <<fmt, tree, meta, groups, loc>>

NextMkv ==
    \/ MkvExtract
    \/ MkvProcessInfo
    \/ MkvProcessTags
    \/ MkvProcessTrack
    \/ MkvTracksEnd
    \/ MkvSkipField
    \/ MkvSegmentEnd

---------------------------------------------------------------------------
\* Matroska inputs.

TrackTypes == {T_video, T_audio, T_subtitle, T_buttons}

\* Every well-formed single TrackEntry.
OneTrackTrees ==
    {[segments |-> << <<TracksField(<<MkTrack(ty, hs, lang, 1)>>)>> >>] :
        ty \in TrackTypes,
        hs \in {h \in SUBSET TrackPaths : WellFormedTrack(h)},
        lang \in {T_und, T_mis, T_eng}}

\* The shapes of the entries of the multi-track inputs: complete entries of
\* each kind, entries that miss a field at each place a read can fail, an
\* entry of another type and an entry with no TrackType.
TrackShapes ==
    {[ty |-> T_video, lang |-> T_eng,
      has |-> {"TrackType", "Name", "Language", "CodecID", "Video", "PixelWidth", "PixelHeight"}],
     [ty |-> T_video, lang |-> T_eng,
      has |-> {"TrackType", "Name", "Video", "PixelWidth", "PixelHeight"}],
     [ty |-> T_video, lang |-> T_und,
      has |-> {"TrackType", "Language", "CodecID", "Video", "PixelWidth"}],
     [ty |-> T_audio, lang |-> T_eng,
      has |-> {"TrackType", "Name", "Language", "CodecID", "Audio", "SamplingFrequency", "Channels"}],
     [ty |-> T_audio, lang |-> T_eng,
      has |-> {"TrackType", "Name", "CodecID", "Audio", "SamplingFrequency"}],
     [ty |-> T_subtitle, lang |-> T_eng,
      has |-> {"TrackType", "Name", "Language", "CodecID"}],
     [ty |-> T_subtitle, lang |-> T_eng,
      has |-> {"TrackType", "Language"}],
     [ty |-> T_buttons, lang |-> T_eng,
      has |-> {"TrackType", "Name", "Language", "CodecID"}],
     [ty |-> T_audio, lang |-> T_eng,
      has |-> {"Name", "CodecID"}]}

ManyTrackTrees ==
    {[segments |-> << <<TracksField([i \in 1..Len(sh) |->
                            MkTrack(sh[i].ty, sh[i].has, sh[i].lang, i)])>> >>] :
        sh \in UNION {[1..k -> TrackShapes] : k \in 0..MaxTracks}}

MkInfo(hs, w, m, d) ==
    [has |-> hs, wapp |-> w, mapp |-> m, duration |-> d, scale |-> 1000000,
     date |-> 7, title |-> <<"M", "y">>]

\* Info elements that differ in their writing and muxing applications.
ProducerInfos ==
    {MkInfo(hs, w, m, 5000) :
        hs \in SUBSET {"WritingApp", "MuxingApp"}, w \in {T_A, T_B}, m \in {T_A, T_B}}

\* One Info element in each segment.
ProducerTrees ==
    {[segments |-> [i \in 1..Len(infos) |-> <<InfoField(infos[i])>>]] :
        infos \in UNION {[1..k -> ProducerInfos] : k \in 1..MaxSegments}}

\* One Info element, over its other fields.
InfoTrees ==
    {[segments |-> << <<InfoField(MkInfo(hs, T_A, T_B, d))>> >>] :
        hs \in SUBSET InfoPaths, d \in {-5, 0, 5000}}

SimpleTags ==
    {[has |-> {"TagName", "TagString"}, name |-> T_TITLE, string |-> <<"t">>],
     [has |-> {"TagName", "TagString"}, name |-> T_URL, string |-> <<"u">>],
     [has |-> {"TagName", "TagString"}, name |-> T_DATE_RECORDED, string |-> <<"2", "0">>],
     [has |-> {"TagName", "TagString"}, name |-> T_ARTIST, string |-> <<"a">>],
     [has |-> {"TagName"}, name |-> T_TITLE, string |-> <<>>],
     [has |-> {"TagString"}, name |-> <<>>, string |-> <<"x">>]}

TagTrees ==
    {[segments |-> << <<TagsField(<<tag>>), OtherField>> >>] :
        tag \in UNION {[1..k -> SimpleTags] : k \in 0..2}}

\* Two segments with every kind of child.
MixedTrees ==
    {[segments |->
        << <<OtherField,
             InfoField(MkInfo(InfoPaths, T_A, T_B, 5000)),
             TagsField(<< <<tg>> >>),
             TracksField(<<MkTrack(T_audio, TrackPaths, T_eng, 1),
                           MkTrack(T_video, TrackPaths, T_eng, 2)>>)>>,
           <<TracksField(<<MkTrack(T_audio, TrackPaths, T_eng, 3)>>),
             InfoField(MkInfo(InfoPaths, T_A, T_A, 5000))>> >>] :
        tg \in SimpleTags}

NoSegmentTrees == {[segments |-> <<>>]}

MkvTrees ==
    NoSegmentTrees \cup OneTrackTrees \cup ManyTrackTrees \cup ProducerTrees
    \cup InfoTrees \cup TagTrees \cup MixedTrees

\* The locals of processHeader before its first statement.
InitLocals == [is_vbr |-> "None", audio_index |-> 1, video_index |-> 1, compression |-> <<>>]

Start ==
    /\ pc = "start"
    /\ outcome = "running"
    /\ meta = EmptyMeta
    /\ groups = <<>>
    /\ pos = [seg |-> 1, fld |-> 1, idx |-> 1]
    /\ loc = InitLocals

InitMkv == fmt = "mkv" /\ tree \in MkvTrees /\ Start

SpecMkv == InitMkv /\ [][NextMkv]_vars

---------------------------------------------------------------------------
\* Matroska: the track entries processed so far, in source order.

RECURSIVE SegmentTracks(_, _)
SegmentTracks(seg, n) ==
    IF n = 0 THEN <<>>
    ELSE SegmentTracks(seg, n - 1)
         \o (IF seg[n].kind = "Tracks" THEN seg[n].entries ELSE <<>>)

RECURSIVE TracksOfSegments(_)
TracksOfSegments(n) ==
    IF n = 0 THEN <<>>
    ELSE TracksOfSegments(n - 1)
         \o SegmentTracks(tree.segments[n], Len(tree.segments[n]))

DoneTracks ==
    IF pc = "start" \/ Len(tree.segments) = 0 THEN <<>>
    ELSE TracksOfSegments(pos.seg - 1)
         \o SegmentTracks(CurSegment, pos.fld - 1)
         \o (IF pos.fld <= Len(CurSegment) /\ CurField.kind = "Tracks"
             THEN SubSeq(CurField.entries, 1, pos.idx - 1) ELSE <<>>)

\* The stream group a track entry belongs to, "none" when it has none.
KindOf(t) ==
    IF "TrackType" \notin t.has THEN "none"
    ELSE IF t.ty = T_video THEN "video"
    ELSE IF t.ty = T_audio THEN "audio"
    ELSE IF t.ty = T_subtitle THEN "subtitle"
    ELSE "none"

DoneTracksOf(base) == SelectSeq(DoneTracks, LAMBDA t : KindOf(t) = base)

StreamKinds == {"video", "audio", "subtitle"}

\* What a track's record must hold: each attribute whose read comes before
\* the first read that fails, and nothing else.
ExpectedTrackRecord(t) ==
    LET h == t.has
        k == KindOf(t)
        codecRead ==
            IF k = "audio"
            THEN "Audio" \in h => {"SamplingFrequency", "Channels"} \subseteq h
            ELSE TRUE
    IN [a \in AttrKeys |->
         IF a = "title" /\ "Name" \in h THEN <<StrV(t.name)>>
         ELSE IF a = "language" /\ "Language" \in h /\ t.lang # T_und /\ t.lang # T_mis
              THEN <<StrV(t.langDisplay)>>
         ELSE IF a = "compression" /\ "CodecID" \in h /\ codecRead
              THEN <<StrV(t.codec)>>
         ELSE IF a = "width" /\ k = "video" /\ {"CodecID", "PixelWidth"} \subseteq h
              THEN <<IntV(t.width)>>
         ELSE IF a = "height" /\ k = "video"
                 /\ {"CodecID", "PixelWidth", "PixelHeight"} \subseteq h
              THEN <<IntV(t.height)>>
         ELSE IF a = "sample_rate" /\ k = "audio" /\ "SamplingFrequency" \in h
              THEN <<IntV(t.freq \div 1000)>>
         ELSE IF a = "nb_channel" /\ k = "audio"
                 /\ {"SamplingFrequency", "Channels"} \subseteq h
              THEN <<IntV(t.channels)>>
         ELSE <<>>]

\* Some read of the track's try block fails.
HasMissingField(t) ==
    \/ "CodecID" \notin t.has
    \/ KindOf(t) = "video" /\ "Video" \in t.has
        /\ ~({"PixelWidth", "PixelHeight"} \subseteq t.has)
    \/ KindOf(t) = "audio" /\ "Audio" \in t.has
        /\ ~({"SamplingFrequency", "Channels"} \subseteq t.has)

\* C3: every classified track processed so far has its own record in its
\* group, holding exactly the attributes read before that track's first
\* missing field; a missing field in one track changes no other record.
C3_MissingFieldConfinedToTrack ==
    fmt = "mkv" =>
        \A base \in StreamKinds :
            LET es == GroupsOf(groups, base)
                ts == DoneTracksOf(base)
            IN  /\ Len(es) = Len(ts)
                /\ \A k \in 1..Len(es) : es[k].rec = ExpectedTrackRecord(ts[k])

\* C3 witness: extraction ended with a track that kept its title although
\* its codec read failed, followed by a sibling with a complete record.
C3_Witness ==
    /\ fmt = "mkv" /\ pc = "done" /\ outcome = "ok"
    /\ \E i, j \in 1..Len(DoneTracks) :
          /\ i < j
          /\ KindOf(DoneTracks[i]) = "video"
          /\ "Name" \in DoneTracks[i].has
          /\ HasMissingField(DoneTracks[i])
          /\ KindOf(DoneTracks[j]) = "video"
          /\ ~HasMissingField(DoneTracks[j])
    /\ Len(GroupsOf(groups, "video")) >= 2
    /\ \E e \in Range(groups) : has(e.rec, "title") /\ ~has(e.rec, "compression")
    /\ \E e \in Range(groups) : has(e.rec, "compression") /\ has(e.rec, "height")

\* C4: each group holds one record per processed track entry of its kind,
\* in source order, indexed 0, 1, 2, ...; entries with no TrackType or with
\* another type add no record to any group.
C4_OneRecordPerClassifiedTrack ==
    fmt = "mkv" =>
        /\ \A e \in Range(groups) : e.base \in StreamKinds
        /\ Len(groups) = Len(SelectSeq(DoneTracks, LAMBDA t : KindOf(t) # "none"))
        /\ \A base \in StreamKinds :
              LET es == GroupsOf(groups, base)
                  ts == DoneTracksOf(base)
              IN  /\ Len(es) = Len(ts)
                  /\ \A k \in 1..Len(es) :
                        /\ es[k].idx = k - 1
                        /\ "Name" \in ts[k].has =>
                              get(es[k].rec, "title") = StrV(ts[k].name)

\* C4 witness: two audio entries gave audio 0 then 1, in source order, and
\* an entry of another type or without a type gave nothing.
C4_Witness ==
    /\ fmt = "mkv" /\ pc = "done"
    /\ Len(DoneTracks) = 3
    /\ Len(groups) = 2
    /\ groups[1].base = "audio" /\ groups[1].idx = 0
    /\ groups[2].base = "audio" /\ groups[2].idx = 1
    /\ \E t \in Range(DoneTracks) : KindOf(t) = "none"
    /\ has(groups[1].rec, "title") /\ has(groups[2].rec, "title")
    /\ get(groups[1].rec, "title") # get(groups[2].rec, "title")

\* The Info element processInfo has just finished with.
LastInfoDone ==
    /\ fmt = "mkv" /\ pc \in {"segment", "done"} /\ outcome # "HachoirError"
    /\ pos.fld > 1
    /\ CurSegment[pos.fld - 1].kind = "Info"
LastInfo == CurSegment[pos.fld - 1].info

\* C9: after an Info element with both applications, producer is the muxing
\* application; with one of the two, producer is that one.
C9_ProducerIsMuxingApp ==
    LastInfoDone =>
        /\ "MuxingApp" \in LastInfo.has =>
              has(meta, "producer") /\ get(meta, "producer") = StrV(LastInfo.mapp)
        /\ "WritingApp" \in LastInfo.has /\ "MuxingApp" \notin LastInfo.has =>
              has(meta, "producer") /\ get(meta, "producer") = StrV(LastInfo.wapp)

---------------------------------------------------------------------------
\* ASF field trees.
\*
\* tree.header says whether header/content exists; the rest describes its
\* children.  A block with field has lists the sub-fields present in it.
\* bit_rates[i + 1] is bit_rates/content/bit_rate[i]/avg_bitrate.

FilePropPaths == {"creation_date", "play_duration", "seekable", "max_bitrate"}
MetadataPaths == {"title", "author", "copyright"}

Descriptor(ty, name, value) ==
    [has |-> {"type", "name", "value"}, type |-> ty, name |-> name, value |-> value]

AsfTree(ext, fp, cl, streams, rates, md) ==
    [header |-> TRUE, ext_desc |-> ext, file_prop |-> fp, codec_list |-> cl,
     streams |-> streams, bit_rates |-> rates, metadata |-> md]

---------------------------------------------------------------------------
\* AsfMetadata.

EXT_DESC_TO_ATTR ==
    (T_Encoder :> "producer") @@ (T_ToolName :> "producer")
    @@ (T_AlbumTitle :> "album") @@ (T_Track :> "track_number")
    @@ (T_TrackNumber :> "track_number") @@ (T_Year :> "creation_date")

SKIP_EXT_DESC == {T_WMFSDKNeeded, T_WMFSDKVersion, T_BufferAverage, T_VBRPeak}

\* "%s" % value.
Format(x) ==
    CASE x.t = "str" -> x.v
      [] x.t = "int" -> Decimal(x.v)
      [] x.t = "bool" -> IF x.v THEN T_True ELSE T_False

\* not value.
Falsy(x) ==
    CASE x.t = "str" -> x.v = <<>>
      [] x.t = "int" -> x.v = 0
      [] x.t = "bool" -> ~x.v

\* value == 1.
EqualsOne(x) ==
    CASE x.t = "str" -> FALSE
      [] x.t = "int" -> x.v = 1
      [] x.t = "bool" -> x.v

\* key.split("/", 1)[1] when "/" is in key, else key.
StripPrefix(key) ==
    IF \E i \in 1..Len(key) : key[i] = "/"
    THEN LET i == CHOOSE i \in 1..Len(key) :
                      key[i] = "/" /\ \A j \in 1..(i - 1) : key[j] # "/"
         IN  SubSeq(key, i + 1, Len(key))
    ELSE key

\* A dict: a function from keys to values.
EmptyDict == <<>>
Put(data, k, v) == [x \in DOMAIN data \cup {k} |-> IF x = k THEN v ELSE data[x]]
Del(data, ks) == [x \in DOMAIN data \ ks |-> data[x]]

\* The loop over ext_desc/content/descriptor: ok is FALSE when a read raised
\* MissingField.
RECURSIVE collectData(_, _)
collectData(descs, data) ==
    IF descs = <<>> THEN [ok |-> TRUE, data |-> data]
    ELSE LET d == Head(descs)
             rest == Tail(descs)
             raised == [ok |-> FALSE, data |-> data]
         IN  IF "type" \notin d.has THEN raised
             ELSE IF d.type = "bytearray" THEN collectData(rest, data)
             ELSE IF "name" \notin d.has THEN raised
             ELSE IF d.name \in SKIP_EXT_DESC THEN collectData(rest, data)
             ELSE IF "value" \notin d.has THEN raised
             ELSE IF Falsy(d.value) THEN collectData(rest, data)
             ELSE collectData(rest, Put(data, StripPrefix(d.name), d.value))

ToolProducer(data) ==
    StrV(Format(data[T_ToolName]) \o T_version_open
         \o Format(data[T_ToolVersion]) \o T_close)

\* The grouping of ToolName and ToolVersion that forgets to delete the keys.
groupToolKeepsKeys(data) ==
    IF T_ToolName \in DOMAIN data /\ T_ToolVersion \in DOMAIN data
    THEN [merged |-> TRUE, producer |-> ToolProducer(data), data |-> data]
    ELSE [merged |-> FALSE, producer |-> StrV(<<>>), data |-> data]

\* ToolName and ToolVersion, when both are there, become one producer value
\* and leave the dict.
groupTool(data) ==
    IF T_ToolName \in DOMAIN data /\ T_ToolVersion \in DOMAIN data
    THEN [merged |-> TRUE, producer |-> ToolProducer(data),
          data |-> Del(data, {T_ToolName, T_ToolVersion})]
    ELSE [merged |-> FALSE, producer |-> StrV(<<>>), data |-> data]

\* The "IsVBR" key: is_vbr is "True", "False" or stays "None".
vbrFlag(data) ==
    IF T_IsVBR \in DOMAIN data
    THEN [is_vbr |-> IF EqualsOne(data[T_IsVBR]) THEN "True" ELSE "False",
          data |-> Del(data, {T_IsVBR})]
    ELSE [is_vbr |-> "None", data |-> data]

\* The store loop, over the keys in the order the dict yields them.
RECURSIVE storeData(_, _, _)
storeData(m, data, order) ==
    IF order = <<>> THEN m
    ELSE LET key == Head(order)
             value == data[key]
             m1 == IF key \in DOMAIN EXT_DESC_TO_ATTR
                   THEN setAttribute(m, EXT_DESC_TO_ATTR[key], value)
                   ELSE setAttribute(m, "comment",
                                     StrV(key \o T_equals \o Format(value)))
         IN  storeData(m1, data, Tail(order))

\* The orders in which a dict may yield its keys.
Orders(S) ==
    {o \in [1..Cardinality(S) -> S] :
        \A i, j \in 1..Cardinality(S) : i # j => o[i] # o[j]}

\* durationWin64: 100 ns ticks as a duration in microseconds.
durationWin64(ticks) == Timedelta(ticks \div 10)

\* The text half of bit_rate.
bitRateText(text, is_vbr) ==
    IF is_vbr = "True" THEN T_VBR_open \o text \o T_max_close
    ELSE IF is_vbr = "False" THEN text \o T_CBR
    ELSE text \o T_max

BitRatePair(value, text) == [t |-> "pair", v |-> value, text |-> text]

\* The file_prop/content block: ok is FALSE when a read raised MissingField,
\* and m is the record as the reads before it left it.  prop.seekable is the
\* truth value of the seekable field.
fileProp(m, prop, is_vbr) ==
    IF "creation_date" \notin prop.has THEN [ok |-> FALSE, m |-> m] ELSE
    LET m1 == setAttribute(m, "creation_date", Datetime(prop.creation_date)) IN
    IF "play_duration" \notin prop.has THEN [ok |-> FALSE, m |-> m1] ELSE
    LET m2 == setAttribute(m1, "duration", durationWin64(prop.play_duration)) IN
    IF "seekable" \notin prop.has THEN [ok |-> FALSE, m |-> m2] ELSE
    LET m3 == IF prop.seekable
              THEN setAttribute(m2, "comment", StrV(T_IsSeekable)) ELSE m2 IN
    IF "max_bitrate" \notin prop.has THEN [ok |-> FALSE, m |-> m3] ELSE
    [ok |-> TRUE,
     m |-> setAttribute(m3, "bit_rate",
                        BitRatePair(prop.max_bitrate.value,
                                    bitRateText(prop.max_bitrate.display, is_vbr)))]

\* The codec_list loop: the labels "name" or "name (desc)".
RECURSIVE codecLabels(_)
codecLabels(codecs) ==
    IF codecs = <<>> THEN <<>>
    ELSE LET c == Head(codecs) IN
         (IF "name" \notin c.has THEN <<>>
          ELSE IF "desc" \in c.has /\ c.desc # <<>>
               THEN <<c.name \o T_paren_open \o c.desc \o T_close>>
               ELSE <<c.name>>)
         \o codecLabels(Tail(codecs))

\* streamProperty with the bit-rate array read one element too far.
streamPropertyOffByOne(rates, index) ==
    IF index + 2 <= Len(rates)
    THEN setAttribute(EmptyMeta, "bit_rate", IntV(rates[index + 2]))
    ELSE EmptyMeta

\* streamProperty(header, index): bit_rate from bit_rate[index], if there.
streamProperty(rates, index) ==
    IF index + 1 <= Len(rates)
    THEN setAttribute(EmptyMeta, "bit_rate", IntV(rates[index + 1]))
    ELSE EmptyMeta

\* The record of an audio stream_prop entry.
audioStream(s, m) ==
    LET needCodec == ~has(m, "compression") IN
    IF needCodec /\ "twocc" \notin s.has THEN [ok |-> FALSE, m |-> m] ELSE
    LET m1 == IF needCodec THEN setAttribute(m, "compression", StrV(s.twocc)) ELSE m IN
    IF "sample_rate" \notin s.has THEN [ok |-> FALSE, m |-> m1] ELSE
    LET m2 == setAttribute(m1, "sample_rate", IntV(s.sample_rate)) IN
    IF "bits_per_sample" \notin s.has THEN [ok |-> FALSE, m |-> m2] ELSE
    [ok |-> TRUE, m |-> setAttribute(m2, "bits_per_sample", IntV(s.bits_per_sample))]

\* The record of a video stream_prop entry.
videoStream(s, m) ==
    IF "width" \notin s.has THEN [ok |-> FALSE, m |-> m] ELSE
    LET m1 == setAttribute(m, "width", IntV(s.width)) IN
    IF "height" \notin s.has THEN [ok |-> FALSE, m |-> m1] ELSE
    LET m2 == setAttribute(m1, "height", IntV(s.height)) IN
    IF "bmp_info" \notin s.has THEN [ok |-> TRUE, m |-> m2] ELSE
    LET needCodec == ~has(m2, "compression") IN
    IF needCodec /\ "codec" \notin s.has THEN [ok |-> FALSE, m |-> m2] ELSE
    LET m3 == IF needCodec THEN setAttribute(m2, "compression", StrV(s.codec)) ELSE m2 IN
    IF "bpp" \notin s.has THEN [ok |-> FALSE, m |-> m3] ELSE
    [ok |-> TRUE, m |-> setAttribute(m3, "bits_per_pixel", IntV(s.bpp))]

\* The metadata/content block with a presence probe of all three fields first.
metadataBlockAllOrNothing(m, info) ==
    IF ~({"title", "author", "copyright"} \subseteq info.has) THEN m
    ELSE setAttribute(setAttribute(setAttribute(m, "title", StrV(info.title)),
                                   "author", StrV(info.author)),
                      "copyright", StrV(info.copyright))

\* The metadata/content block: the try block ends at the first absent field.
metadataBlock(m, info) ==
    IF "title" \notin info.has THEN m ELSE
    LET m1 == setAttribute(m, "title", StrV(info.title)) IN
    IF "author" \notin info.has THEN m1 ELSE
    LET m2 == setAttribute(m1, "author", StrV(info.author)) IN
    IF "copyright" \notin info.has THEN m2 ELSE
    setAttribute(m2, "copyright", StrV(info.copyright))

\* An uncaught MissingField leaves extract().
Raise ==
    /\ pc' = "done"
    /\ outcome' = "MissingField"

\* extract(): without header/content nothing is done.
AsfExtract ==
    /\ fmt = "asf" /\ pc = "start"
    /\ IF tree.header
       THEN pc' = "ext_desc" /\ outcome' = outcome
       ELSE pc' = "done" /\ outcome' = "ok"
    /\ UNCHANGED <<fmt, tree, meta, groups, pos, loc>>

AsfExtDesc ==
    /\ fmt = "asf" /\ pc = "ext_desc"
    /\ IF ~tree.ext_desc.present
       THEN pc' = "file_prop" /\ UNCHANGED <<outcome, meta, loc>>
       ELSE LET c == collectData(tree.ext_desc.descs, EmptyDict) IN
            IF ~c.ok
            THEN Raise /\ UNCHANGED <<meta, loc>>
            ELSE LET g == groupTool(c.data)
                     f == vbrFlag(g.data)
                     m1 == IF g.merged
                           THEN setAttribute(meta, "producer", g.producer)
                           ELSE meta
                 IN  /\ \E order \in Orders(DOMAIN f.data) :
                           meta' = storeData(m1, f.data, order)
                     /\ loc' = [loc EXCEPT !.is_vbr = f.is_vbr]
                     /\ pc' = "file_prop"
                     /\ UNCHANGED outcome
    /\ UNCHANGED <<fmt, tree, groups, pos>>

AsfFileProp ==
    /\ fmt = "asf" /\ pc = "file_prop"
    /\ IF ~tree.file_prop.present
       THEN pc' = "codec_list" /\ UNCHANGED <<outcome, meta>>
       ELSE LET r == fileProp(meta, tree.file_prop, loc.is_vbr) IN
            /\ meta' = r.m
            /\ IF r.ok THEN pc' = "codec_list" /\ UNCHANGED outcome ELSE Raise
    /\ UNCHANGED <<fmt, tree, groups, pos, loc>>

AsfCodecList ==
    /\ fmt = "asf" /\ pc = "codec_list"
    /\ loc' = [loc EXCEPT !.compression =
                  IF tree.codec_list.present
                  THEN codecLabels(tree.codec_list.codecs) ELSE <<>>,
                  !.audio_index = 1, !.video_index = 1]
    /\ pc' = "streams"
    /\ pos' = [pos EXCEPT !.idx = 1]
    /\ UNCHANGED <<fmt, tree, outcome, meta, groups>>

\* One entry of the stream_prop array; its raw index is pos.idx - 1.
AsfStream ==
    /\ fmt = "asf" /\ pc = "streams"
    /\ pos.idx <= Len(tree.streams)
    /\ LET s == tree.streams[pos.idx]
           m == streamProperty(tree.bit_rates, pos.idx - 1)
           r == IF s.kind = "audio" THEN audioStream(s, m) ELSE videoStream(s, m)
       IN  IF s.kind \notin {"audio", "video"}
           THEN /\ pos' = [pos EXCEPT !.idx = @ + 1]
                /\ UNCHANGED <<pc, outcome, groups, loc>>
           ELSE IF ~r.ok
           THEN Raise /\ UNCHANGED <<groups, loc, pos>>
           ELSE IF s.kind = "audio"
           THEN /\ groups' = addGroup(groups, IndexedKey("audio", loc.audio_index), r.m)
                /\ loc' = [loc EXCEPT !.audio_index = @ + 1]
                /\ pos' = [pos EXCEPT !.idx = @ + 1]
                /\ UNCHANGED <<pc, outcome>>
           ELSE /\ groups' = addGroup(groups, IndexedKey("video", loc.video_index), r.m)
                /\ loc' = [loc EXCEPT !.video_index = @ + 1]
                /\ pos' = [pos EXCEPT !.idx = @ + 1]
                /\ UNCHANGED <<pc, outcome>>
    /\ UNCHANGED <<fmt, tree, meta>>

AsfStreamsEnd ==
    /\ fmt = "asf" /\ pc = "streams"
    /\ pos.idx > Len(tree.streams)
    /\ pc' = "metadata"
    /\ UNCHANGED <<fmt, tree, outcome, meta, groups, pos, loc>>

\* The metadata/content block, then processHeader and extract() return.
AsfMetadataBlock ==
    /\ fmt = "asf" /\ pc = "metadata"
    /\ meta' = IF tree.metadata.present
               THEN metadataBlock(meta, tree.metadata) ELSE meta
    /\ pc' = "done"
    /\ outcome' = "ok"
    /\ UNCHANGED <<fmt, tree, groups, pos, loc>>

NextAsf ==
    \/ AsfExtract
    \/ AsfExtDesc
    \/ AsfFileProp
    \/ AsfCodecList
    \/ AsfStream
    \/ AsfStreamsEnd
    \/ AsfMetadataBlock

---------------------------------------------------------------------------
\* ASF inputs.

NoExtDesc == [present |-> FALSE, descs |-> <<>>]
ExtDesc(descs) == [present |-> TRUE, descs |-> descs]

FileProp(hs, seekable) ==
    [present |-> TRUE, has |-> hs, creation_date |-> 11,
     play_duration |-> 50000000, seekable |-> seekable,
     max_bitrate |-> [value |-> 128000, display |-> T_128Kbit]]
NoFileProp == [present |-> FALSE]

NoCodecList == [present |-> FALSE, codecs |-> <<>>]
SomeCodecList ==
    [present |-> TRUE,
     codecs |-> <<[has |-> {"name", "desc"}, name |-> T_A, desc |-> T_B],
                  [has |-> {"name", "desc"}, name |-> T_A, desc |-> <<>>],
                  [has |-> {"desc"}, name |-> <<>>, desc |-> T_B],
                  [has |-> {"name"}, name |-> T_B, desc |-> <<>>]>>]

Metadata(hs) ==
    [present |-> TRUE, has |-> hs, title |-> <<"t">>, author |-> <<"a">>,
     copyright |-> <<"c">>]
NoMetadata == [present |-> FALSE]

AudioStream(hs) ==
    [kind |-> "audio", has |-> hs, twocc |-> <<"M", "P", "3">>,
     sample_rate |-> 44100, bits_per_sample |-> 16]
VideoStream(hs) ==
    [kind |-> "video", has |-> hs, width |-> 640, height |-> 480,
     codec |-> <<"W", "M", "V">>, bpp |-> 24]
OtherStream == [kind |-> "other", has |-> {}]

\* Descriptors of every kind the descriptor loop tells apart.
Descriptors ==
    {Descriptor("unicode", T_WM_ToolName, StrV(T_X)),
     Descriptor("unicode", T_WM_ToolVersion, StrV(T_1)),
     Descriptor("unicode", T_Foo, StrV(T_Bar)),
     Descriptor("unicode", T_Foo, StrV(<<>>)),
     Descriptor("bool", T_IsVBR, BoolV(TRUE)),
     Descriptor("bool", T_IsVBR, BoolV(FALSE)),
     Descriptor("dword", T_IsVBR, IntV(2)),
     Descriptor("unicode", T_WM_Encoder, StrV(T_E)),
     Descriptor("dword", T_WM_TrackNumber, IntV(12)),
     Descriptor("bytearray", T_Pic, StrV(T_Bar)),
     Descriptor("unicode", T_WMFSDKVersion, StrV(T_9)),
     [has |-> {"type", "name"}, type |-> "unicode", name |-> T_Foo, value |-> StrV(<<>>)]}

DescriptorTrees ==
    {AsfTree(ExtDesc(ds), FileProp(FilePropPaths, TRUE), NoCodecList, <<>>, <<>>, NoMetadata) :
        ds \in UNION {[1..k -> Descriptors] : k \in 0..MaxDescriptors}}

StreamEntries ==
    {AudioStream({"twocc", "sample_rate", "bits_per_sample"}),
     VideoStream({"width", "height", "bmp_info", "codec", "bpp"}),
     VideoStream({"width", "height"}),
     OtherStream,
     AudioStream({"twocc", "bits_per_sample"})}

StreamTrees ==
    {AsfTree(NoExtDesc, NoFileProp, NoCodecList, ss, [i \in 1..n |-> 64000 + i],
             Metadata(MetadataPaths)) :
        ss \in UNION {[1..k -> StreamEntries] : k \in 0..MaxStreams},
        n \in 0..MaxStreams}

BlockTrees ==
    {AsfTree(ext, fp, cl, <<AudioStream({"twocc", "sample_rate", "bits_per_sample"})>>,
             <<64001>>, md) :
        ext \in {NoExtDesc, ExtDesc(<<Descriptor("unicode", T_Foo, StrV(T_Bar))>>)},
        fp \in {NoFileProp} \cup {FileProp(hs, sk) : hs \in SUBSET FilePropPaths,
                                                      sk \in BOOLEAN},
        cl \in {NoCodecList, SomeCodecList},
        md \in {NoMetadata} \cup {Metadata(hs) : hs \in SUBSET MetadataPaths}}

NoHeaderTrees == {[header |-> FALSE]}

AsfTrees == NoHeaderTrees \cup DescriptorTrees \cup StreamTrees \cup BlockTrees

InitAsf == fmt = "asf" /\ tree \in AsfTrees /\ Start

SpecAsf == InitAsf /\ [][NextAsf]_vars

---------------------------------------------------------------------------
\* ASF: what the descriptor array says, read off the tree.

AsfDescs == IF tree.ext_desc.present THEN tree.ext_desc.descs ELSE <<>>

\* Descriptor i takes part: it is not binary, not on the skip list and its
\* value is not empty.
Retained(i) ==
    LET d == AsfDescs[i] IN
    /\ d.type # "bytearray"
    /\ d.name \notin SKIP_EXT_DESC
    /\ "value" \in d.has
    /\ ~Falsy(d.value)

RetainedKeys == {StripPrefix(AsfDescs[i].name) : i \in {j \in 1..Len(AsfDescs) : Retained(j)}}

\* The value of the last retained descriptor named k.
RetainedValue(k) ==
    LET i == CHOOSE i \in 1..Len(AsfDescs) :
                /\ Retained(i) /\ StripPrefix(AsfDescs[i].name) = k
                /\ \A j \in (i + 1)..Len(AsfDescs) :
                      ~(Retained(j) /\ StripPrefix(AsfDescs[j].name) = k)
    IN  AsfDescs[i].value

\* The descriptors that supply a VBR flag, whatever its value.
VbrFlagDescs ==
    {i \in 1..Len(AsfDescs) :
        /\ AsfDescs[i].type # "bytearray"
        /\ "value" \in AsfDescs[i].has
        /\ StripPrefix(AsfDescs[i].name) = T_IsVBR}

LastVbrFlag ==
    AsfDescs[CHOOSE i \in VbrFlagDescs : \A j \in VbrFlagDescs : j <= i].value

\* C5: with file properties present, the text of bit_rate is "VBR (<x> max)"
\* when the descriptors supply a true VBR flag, "<x> (CBR)" when they supply
\* a false one, and "<x> (max)" when they supply none.
C5_BitRateTextFollowsVbrFlag ==
    (/\ fmt = "asf" /\ tree.header /\ tree.file_prop.present
     /\ pc \in {"codec_list", "streams", "metadata", "done"}
     /\ has(meta, "bit_rate"))
    => LET x == tree.file_prop.max_bitrate.display IN
       get(meta, "bit_rate").text =
          IF VbrFlagDescs = {} THEN x \o T_max
          ELSE IF EqualsOne(LastVbrFlag) THEN T_VBR_open \o x \o T_max_close
          ELSE x \o T_CBR

MetadataHas == IF tree.metadata.present THEN tree.metadata.has ELSE {}

\* C6 (as amended): the metadata block sets title, author and copyright in
\* that order up to the first absent one, extract() then returns normally,
\* and the block changes no other attribute and no stream group.
C6_MetadataBlockSetsUpToFirstMissing ==
    [][(fmt = "asf" /\ pc = "metadata") =>
         /\ outcome' = "ok"
         /\ groups' = groups
         /\ \A k \in AttrKeys \ MetadataPaths : meta'[k] = meta[k]
         /\ has(meta', "title") <=> "title" \in MetadataHas
         /\ has(meta', "author") <=> {"title", "author"} \subseteq MetadataHas
         /\ has(meta', "copyright") <=> MetadataPaths \subseteq MetadataHas]_vars

\* C6 witness: a metadata block with title and copyright but no author left
\* title set and copyright unset, after file properties and a stream.
C6_Witness ==
    /\ fmt = "asf" /\ pc = "done" /\ outcome = "ok"
    /\ tree.header /\ tree.metadata.present
    /\ tree.metadata.has = {"title", "copyright"}
    /\ has(meta, "title") /\ ~has(meta, "author") /\ ~has(meta, "copyright")
    /\ has(meta, "bit_rate") /\ has(meta, "comment")
    /\ Len(groups) = 1

\* C6 as stated: title, author and copyright are set only all together.
C6_AllOrNothing ==
    (/\ fmt = "asf" /\ pc = "done" /\ outcome = "ok"
     /\ tree.header /\ tree.metadata.present)
    => IF MetadataPaths \subseteq tree.metadata.has
       THEN \A k \in MetadataPaths : has(meta, k)
       ELSE \A k \in MetadataPaths : ~has(meta, k)

\* The positions, among the first n stream_prop entries, of those of a kind.
StreamPositions(kind, n) == {i \in 1..n : tree.streams[i].kind = kind}

\* The k-th smallest member of a set of positions.
KthOf(S, k) == CHOOSE i \in S : Cardinality({j \in S : j <= i}) = k

\* C7: the k-th audio (video) entry processed is group audio[k] (video[k]),
\* counted from 1 per kind; its bit_rate is the element of the bit-rate array
\* at the entry's raw position, absent when there is none; other entries add
\* no group.
C7_PerKindCounterRawIndexBitRate ==
    (fmt = "asf" /\ tree.header) =>
        /\ Len(groups) = Cardinality(StreamPositions("audio", pos.idx - 1))
                         + Cardinality(StreamPositions("video", pos.idx - 1))
        /\ \A kind \in {"audio", "video"} :
              LET S == StreamPositions(kind, pos.idx - 1)
                  es == GroupsOf(groups, kind)
              IN  /\ Len(es) = Cardinality(S)
                  /\ \A k \in 1..Len(es) :
                        LET i == KthOf(S, k) IN
                        /\ es[k].idx = k
                        /\ es[k].rec["bit_rate"] =
                              IF i <= Len(tree.bit_rates)
                              THEN <<IntV(tree.bit_rates[i])>> ELSE <<>>

\* C7 witness: video, audio, audio with two bit rates: audio[1] took the
\* second bit rate and audio[2] has none.
C7_Witness ==
    /\ fmt = "asf" /\ pc = "done" /\ outcome = "ok" /\ tree.header
    /\ Len(tree.streams) = 3 /\ Len(tree.bit_rates) = 2
    /\ Len(groups) = 3
    /\ groups[1].base = "video" /\ groups[1].idx = 1
    /\ groups[2].base = "audio" /\ groups[2].idx = 1
    /\ get(groups[2].rec, "bit_rate") = IntV(tree.bit_rates[2])
    /\ groups[3].base = "audio" /\ groups[3].idx = 2
    /\ ~has(groups[3].rec, "bit_rate")

BothToolKeys == {T_ToolName, T_ToolVersion} \subseteq RetainedKeys

\* The retained keys that become a comment.
CommentKeys ==
    RetainedKeys \ (DOMAIN EXT_DESC_TO_ATTR \cup {T_IsVBR}
                    \cup (IF BothToolKeys THEN {T_ToolName, T_ToolVersion} ELSE {}))

\* C10: right after the descriptors, when both tool keys are retained the
\* producer candidates are "<name> (version <version>)" and then only what
\* Encoder supplies; in every case the comments are exactly one "key=value"
\* per retained key outside the remap table, the tool pair and the VBR flag.
C10_ToolPairMergedOnce ==
    (fmt = "asf" /\ pc = "file_prop") =>
        /\ BothToolKeys =>
              meta["producer"] =
                 <<StrV(Format(RetainedValue(T_ToolName)) \o T_version_open
                        \o Format(RetainedValue(T_ToolVersion)) \o T_close)>>
                 \o (IF T_Encoder \in RetainedKeys
                     THEN <<RetainedValue(T_Encoder)>> ELSE <<>>)
        /\ Range(meta["comment"]) =
              {StrV(k \o T_equals \o Format(RetainedValue(k))) : k \in CommentKeys}
        /\ Len(meta["comment"]) = Cardinality(CommentKeys)

\* C10 witness: ToolName "X", ToolVersion "1" and Foo "Bar" gave producer
\* "X (version 1)" and the one comment "Foo=Bar".
C10_Witness ==
    /\ fmt = "asf" /\ pc = "file_prop"
    /\ BothToolKeys /\ T_Foo \in RetainedKeys
    /\ meta["producer"] = <<StrV(<<"X", " ", "(", "v", "e", "r", "s", "i", "o", "n", " ", "1", ")">>)>>
    /\ meta["comment"] = <<StrV(<<"F", "o", "o", "=", "B", "a", "r">>)>>

---------------------------------------------------------------------------
\* FLV field trees.
\*
\* tree.audio and tree.video are audio[0] and video[0]; tree.amf is
\* metadata/entry[1] with its item array; tree.size is the size of the file
\* and tree.description its description.  Floats are kept in thousandths.

AudioPaths == {"is_16bit", "codec", "music_data", "is_stereo"}

FlvTree(audio, video, amf) ==
    [audio |-> audio, video |-> video, amf |-> amf, size |-> 1000000,
     description |-> T_FlashVideo]

NumItem(key, milli) == [has |-> {"key", "value"}, key |-> key, num |-> milli]
TextItem(key, text) == [has |-> {"key", "value"}, key |-> key, text |-> text]

---------------------------------------------------------------------------
\* FlvMetadata.

\* A float as a fraction in lowest terms.
RECURSIVE Gcd(_, _)
Gcd(a, b) == IF b = 0 THEN a ELSE Gcd(b, a % b)
Float(num, den) ==
    LET g == Gcd(num, den) IN [t |-> "float", num |-> num \div g, den |-> den \div g]

\* timedelta(seconds = float), the float in thousandths of a second.
SecondsToTimedelta(milli) == Timedelta(milli * 1000)

\* size / seconds with only the whole seconds of the duration.
bitRateWholeSeconds(size, duration) ==
    Float(size, duration.v \div 1000000)

\* flv.size / timedelta2seconds(duration): the duration is duration.v
\* microseconds, so the quotient is size * 10^6 / duration.v.
bitRate(size, duration) ==
    LET g == Gcd(1000000, duration.v)
        f == Float(size, duration.v \div g)
    IN  Float(f.num * (1000000 \div g), f.den)

\* The audio[0] block: ok is FALSE when a read raised MissingField.
flvAudio(audio) ==
    LET m0 == setAttribute(EmptyMeta, "sample_rate", IntV(audio.sample_rate)) IN
    IF "is_16bit" \notin audio.has THEN [ok |-> FALSE, m |-> m0] ELSE
    LET m1 == setAttribute(m0, "bits_per_sample",
                           IntV(IF audio.is_16bit THEN 16 ELSE 8)) IN
    IF "codec" \notin audio.has THEN [ok |-> FALSE, m |-> m1] ELSE
    LET m2 == IF audio.codec = T_MP3 /\ "music_data" \in audio.has
              THEN setAttribute(m1, "compression", StrV(audio.music_data))
              ELSE setAttribute(m1, "compression", StrV(audio.codec)) IN
    IF "is_stereo" \notin audio.has THEN [ok |-> FALSE, m |-> m2] ELSE
    [ok |-> TRUE,
     m |-> setAttribute(m2, "nb_channel", IntV(IF audio.is_stereo THEN 2 ELSE 1))]

\* One item of extractAMF: ok is FALSE when a read raised MissingField.
amfItem(m, entry) ==
    IF "key" \notin entry.has THEN [ok |-> FALSE, m |-> m] ELSE
    LET key == entry.key
        attr == CASE key = T_duration -> "duration"
                  [] key = T_creator -> "producer"
                  [] key = T_audiosamplerate -> "sample_rate"
                  [] key = T_framerate -> "frame_rate"
                  [] key = T_metadatacreator -> "producer"
                  [] key = T_width -> "width"
                  [] key = T_height -> "height"
                  [] OTHER -> "none"
    IN  IF key = T_metadatadate
        THEN [ok |-> TRUE, m |-> setAttribute(m, "creation_date", entry.entryValue)]
        ELSE IF attr = "none" THEN [ok |-> TRUE, m |-> m]
        ELSE IF "value" \notin entry.has THEN [ok |-> FALSE, m |-> m]
        ELSE [ok |-> TRUE,
              m |-> setAttribute(m, attr,
                      CASE attr = "duration" -> SecondsToTimedelta(entry.num)
                        [] attr = "producer" -> StrV(entry.text)
                        [] attr = "frame_rate" -> Float(entry.num, 1000)
                        [] OTHER -> IntV(IntOfFloat(entry.num)))]

FlvAudio ==
    /\ fmt = "flv" /\ pc = "start"
    /\ IF ~tree.audio.present
       THEN pc' = "video" /\ UNCHANGED <<outcome, groups>>
       ELSE LET r == flvAudio(tree.audio) IN
            IF r.ok
            THEN /\ groups' = addGroup(groups, PlainKey("audio"), r.m)
                 /\ pc' = "video" /\ UNCHANGED outcome
            ELSE Raise /\ UNCHANGED groups
    /\ UNCHANGED <<fmt, tree, meta, pos, loc>>

FlvVideo ==
    /\ fmt = "flv" /\ pc = "video"
    /\ IF ~tree.video.present
       THEN pc' = "format_version" /\ UNCHANGED <<outcome, groups>>
       ELSE IF "codec" \notin tree.video.has
       THEN Raise /\ UNCHANGED groups
       ELSE /\ groups' = addGroup(groups, PlainKey("video"),
                            setAttribute(EmptyMeta, "compression", StrV(tree.video.codec)))
            /\ pc' = "format_version" /\ UNCHANGED outcome
    /\ UNCHANGED <<fmt, tree, meta, pos, loc>>

FlvFormatVersion ==
    /\ fmt = "flv" /\ pc = "format_version"
    /\ meta' = setAttribute(meta, "format_version", StrV(tree.description))
    /\ pc' = IF tree.amf.present THEN "amf" ELSE "bit_rate"
    /\ pos' = [pos EXCEPT !.idx = 1]
    /\ UNCHANGED <<fmt, tree, outcome, groups, loc>>

\* extractAMF: one item per step.
FlvAmfItem ==
    /\ fmt = "flv" /\ pc = "amf"
    /\ pos.idx <= Len(tree.amf.items)
    /\ LET r == amfItem(meta, tree.amf.items[pos.idx]) IN
       /\ meta' = r.m
       /\ IF r.ok
          THEN pos' = [pos EXCEPT !.idx = @ + 1] /\ UNCHANGED <<pc, outcome>>
          ELSE Raise /\ UNCHANGED pos
    /\ UNCHANGED <<fmt, tree, groups, loc>>

FlvAmfEnd ==
    /\ fmt = "flv" /\ pc = "amf"
    /\ pos.idx > Len(tree.amf.items)
    /\ pc' = "bit_rate"
    /\ UNCHANGED <<fmt, tree, outcome, meta, groups, pos, loc>>

\* The last statement of extract(), and its return.
FlvBitRate ==
    /\ fmt = "flv" /\ pc = "bit_rate"
    /\ meta' = IF has(meta, "duration")
               THEN setAttribute(meta, "bit_rate",
                                 bitRate(tree.size, get(meta, "duration")))
               ELSE meta
    /\ pc' = "done"
    /\ outcome' = "ok"
    /\ UNCHANGED <<fmt, tree, groups, pos, loc>>

NextFlv ==
    \/ FlvAudio
    \/ FlvVideo
    \/ FlvFormatVersion
    \/ FlvAmfItem
    \/ FlvAmfEnd
    \/ FlvBitRate

---------------------------------------------------------------------------
\* FLV inputs.

NoBlock == [present |-> FALSE]
FlvAudioHeader(hs, codec, b16, stereo) ==
    [present |-> TRUE, has |-> hs, sample_rate |-> 44100, is_16bit |-> b16,
     codec |-> codec, music_data |-> T_MPEG1Layer3, is_stereo |-> stereo]
FlvVideoHeader(hs) == [present |-> TRUE, has |-> hs, codec |-> T_H263]
Amf(items) == [present |-> TRUE, items |-> items]

AmfItems ==
    {NumItem(T_duration, 12500),
     NumItem(T_duration, 4000),
     TextItem(T_creator, T_A),
     TextItem(T_metadatacreator, T_B),
     NumItem(T_audiosamplerate, 22050000),
     NumItem(T_framerate, 29970),
     NumItem(T_width, 320000),
     NumItem(T_height, 240000),
     [has |-> {"key", "value"}, key |-> T_metadatadate, entryValue |-> Datetime(5)],
     NumItem(T_canSeekToEnd, 1000),
     [has |-> {"value"}, key |-> <<>>, num |-> 0],
     [has |-> {"key"}, key |-> T_duration, num |-> 0],
     [has |-> {"key"}, key |-> T_canSeekToEnd, num |-> 0]}

AmfTrees ==
    {FlvTree(FlvAudioHeader(AudioPaths, T_MP3, TRUE, TRUE), FlvVideoHeader({"codec"}),
             Amf(items)) :
        items \in UNION {[1..k -> AmfItems] : k \in 0..MaxItems}}

HeaderTrees ==
    {FlvTree(audio, video, amf) :
        audio \in {NoBlock} \cup
                  {FlvAudioHeader(hs, codec, b16, stereo) :
                      hs \in SUBSET AudioPaths, codec \in {T_MP3, T_Nellymoser},
                      b16 \in BOOLEAN, stereo \in BOOLEAN},
        video \in {NoBlock, FlvVideoHeader({}), FlvVideoHeader({"codec"})},
        amf \in {NoBlock, Amf(<<NumItem(T_duration, 12500)>>)}}

FlvTrees == AmfTrees \cup HeaderTrees

InitFlv == fmt = "flv" /\ tree \in FlvTrees /\ Start

SpecFlv == InitFlv /\ [][NextFlv]_vars

\* The durations the side channel supplies.
SuppliedDurations ==
    IF tree.amf.present
    THEN {SecondsToTimedelta(tree.amf.items[i].num) :
            i \in {j \in 1..Len(tree.amf.items) :
                     /\ {"key", "value"} \subseteq tree.amf.items[j].has
                     /\ tree.amf.items[j].key = T_duration}}
    ELSE {}

\* C8: bit_rate is written by the last step of extract() and by no other;
\* when extract() has returned it is present exactly when the side channel
\* supplied a duration, and then it is the size divided by the seconds of
\* the record's duration (compared in tenths of a second).
C8_BitRateLastFromDuration ==
    /\ [][(fmt = "flv" /\ meta'["bit_rate"] # meta["bit_rate"])
            => (pc = "bit_rate" /\ pc' = "done")]_vars
    /\ []((fmt = "flv" /\ pc = "done" /\ outcome = "ok") =>
            /\ has(meta, "bit_rate") <=> SuppliedDurations # {}
            /\ has(meta, "bit_rate") =>
                  /\ Len(meta["bit_rate"]) = 1
                  /\ get(meta, "duration") \in SuppliedDurations
                  /\ get(meta, "bit_rate").num * (get(meta, "duration").v \div 100000)
                        = tree.size * 10 * get(meta, "bit_rate").den)

\* C8 witness: size 1,000,000 and a duration of 12.5 s gave 80000, after
\* the headers and a side channel of two items.
C8_Witness ==
    /\ fmt = "flv" /\ pc = "done" /\ outcome = "ok"
    /\ tree.size = 1000000
    /\ tree.amf.present /\ Len(tree.amf.items) = 2
    /\ has(meta, "duration") /\ has(meta, "bit_rate")
    /\ get(meta, "duration") = Timedelta(12500000)
    /\ get(meta, "bit_rate") = [t |-> "float", num |-> 80000, den |-> 1]
    /\ Len(groups) = 2 /\ has(meta, "format_version") /\ has(meta, "producer")

---------------------------------------------------------------------------
\* MOV field trees.
\*
\* tree.atoms are the children of the file; an atom may hold a movie, whose
\* fields may each hold a movie_hdr.  play_speed is a float kept in
\* thousandths.

HdrPaths == {"duration", "time_scale", "creat_date", "lastmod_date", "play_speed", "volume"}

MovieHdr(hs, scale) ==
    [has |-> hs, duration |-> 90000, time_scale |-> scale, creat_date |-> T_date1,
     lastmod_date |-> T_date2, play_speed |-> 1000, volume |-> 200]

HdrField(hdr) == [movie_hdr |-> TRUE, hdr |-> hdr]
PlainField == [movie_hdr |-> FALSE]
MovieAtom(fields) == [movie |-> TRUE, fields |-> fields]
PlainAtom == [movie |-> FALSE, fields |-> <<>>]

---------------------------------------------------------------------------
\* MovMetadata.

\* "%.1f%%" of a non-negative number given in tenths.
OneDecimalPercent(tenths) ==
    Decimal(tenths \div 10) \o T_dot \o <<Digit(tenths % 10)>> \o T_percent

\* processMovieHeader: out is "ok", or the exception that left it.
processMovieHeader(m, hdr) ==
    IF ~({"duration", "time_scale"} \subseteq hdr.has)
    THEN [out |-> "MissingField", m |-> m] ELSE
    IF hdr.time_scale = 0 THEN [out |-> "ZeroDivisionError", m |-> m] ELSE
    LET m1 == setAttribute(m, "duration",
                           IntV((hdr.duration * 1000) \div hdr.time_scale)) IN
    IF "creat_date" \notin hdr.has THEN [out |-> "MissingField", m |-> m1] ELSE
    LET m2 == setAttribute(m1, "creation_date", StrV(hdr.creat_date)) IN
    IF "lastmod_date" \notin hdr.has THEN [out |-> "MissingField", m |-> m2] ELSE
    LET m3 == setAttribute(m2, "last_modification", StrV(hdr.lastmod_date)) IN
    IF "play_speed" \notin hdr.has THEN [out |-> "MissingField", m |-> m3] ELSE
    LET m4 == setAttribute(m3, "comment",
                StrV(T_PlaySpeed \o OneDecimalPercent(hdr.play_speed))) IN
    IF "volume" \notin hdr.has THEN [out |-> "MissingField", m |-> m4] ELSE
    [out |-> "ok",
     m |-> setAttribute(m4, "comment",
             StrV(T_UserVolume
                  \o OneDecimalPercent(10 * ((hdr.volume * 100) \div 255))))]

CurAtom == tree.atoms[pos.seg]

\* extract(): the loop over the atoms of the file; it returns after the last.
MovExtract ==
    /\ fmt = "mov" /\ pc = "start"
    /\ IF Len(tree.atoms) = 0
       THEN pc' = "done" /\ outcome' = "ok"
       ELSE pc' = "atom" /\ outcome' = outcome
    /\ UNCHANGED <<fmt, tree, meta, groups, pos, loc>>

\* processMovie: one field of the movie per step.
MovField ==
    /\ fmt = "mov" /\ pc = "atom"
    /\ CurAtom.movie
    /\ pos.fld <= Len(CurAtom.fields)
    /\ LET f == CurAtom.fields[pos.fld] IN
       IF ~f.movie_hdr
       THEN pos' = [pos EXCEPT !.fld = @ + 1] /\ UNCHANGED <<pc, outcome, meta>>
       ELSE LET r == processMovieHeader(meta, f.hdr) IN
            /\ meta' = r.m
            /\ IF r.out = "ok"
               THEN pos' = [pos EXCEPT !.fld = @ + 1] /\ UNCHANGED <<pc, outcome>>
               ELSE pc' = "done" /\ outcome' = r.out /\ UNCHANGED pos
    /\ UNCHANGED <<fmt, tree, groups, loc>>

\* The end of one atom: on to the next, or extract() returns.
MovAtomEnd ==
    /\ fmt = "mov" /\ pc = "atom"
    /\ ~CurAtom.movie \/ pos.fld > Len(CurAtom.fields)
    /\ IF pos.seg < Len(tree.atoms)
       THEN /\ pos' = [pos EXCEPT !.seg = @ + 1, !.fld = 1]
            /\ UNCHANGED <<pc, outcome>>
       ELSE /\ pc' = "done" /\ outcome' = "ok"
            /\ UNCHANGED pos
    /\ UNCHANGED <<fmt, tree, meta, groups, loc>>

NextMov ==
    \/ MovExtract
    \/ MovField
    \/ MovAtomEnd

---------------------------------------------------------------------------
\* MOV inputs.

MovTrees ==
    {[atoms |-> <<>>], [atoms |-> <<PlainAtom>>], [atoms |-> <<PlainAtom, PlainAtom>>],
     [atoms |-> <<MovieAtom(<<>>)>>], [atoms |-> <<MovieAtom(<<PlainField>>)>>]}
    \cup {[atoms |-> <<PlainAtom, MovieAtom(<<PlainField, HdrField(MovieHdr(hs, scale))>>)>>] :
            hs \in SUBSET HdrPaths, scale \in {0, 600}}
    \cup {[atoms |-> <<MovieAtom(<<HdrField(MovieHdr(HdrPaths, 600))>>),
                       MovieAtom(<<HdrField(MovieHdr(hs, 1000))>>)>>] :
            hs \in SUBSET HdrPaths}

InitMov == fmt = "mov" /\ tree \in MovTrees /\ Start

---------------------------------------------------------------------------
\* The four extractors together.

Init == InitMkv \/ InitAsf \/ InitFlv \/ InitMov

Next == NextMkv \/ NextAsf \/ NextFlv \/ NextMov

Spec == Init /\ [][Next]_vars

\* The tree lacks the root section of its format.
LacksRoot ==
    CASE fmt = "mkv" -> Len(tree.segments) = 0
      [] fmt = "asf" -> ~tree.header
      [] fmt = "mov" -> \A i \in 1..Len(tree.atoms) : ~tree.atoms[i].movie
      [] fmt = "flv" -> ~tree.audio.present /\ ~tree.video.present /\ ~tree.amf.present

\* C1 as stated: without its root section every extractor ends in the
\* structural error.
C1_EveryFormatRaises ==
    (pc = "done" /\ LacksRoot) => outcome = "HachoirError"

\* C1 (as amended): without Segment[0] the Matroska extractor ends in
\* HachoirError with nothing extracted; without their root section the ASF,
\* MOV and FLV extractors return normally, with an empty record and no
\* group, the FLV record holding format_version only.
C1_OnlyMatroskaRaises ==
    (pc = "done" /\ LacksRoot) =>
        /\ groups = <<>>
        /\ fmt = "mkv" => outcome = "HachoirError" /\ meta = EmptyMeta
        /\ fmt \in {"asf", "mov"} => outcome = "ok" /\ meta = EmptyMeta
        /\ fmt = "flv" =>
              /\ outcome = "ok"
              /\ meta = [EmptyMeta EXCEPT !["format_version"] = <<StrV(tree.description)>>]

\* C1 witness: an FLV tree with no stream header and no side channel was
\* extracted to the end.
C1_Witness ==
    /\ fmt = "flv" /\ pc = "done" /\ LacksRoot
    /\ outcome = "ok" /\ has(meta, "format_version")

\* C2: once the root section is there, extract() returns normally.
C2_AlwaysReturnsNormally ==
    (pc = "done" /\ ~LacksRoot) => outcome = "ok"

===========================================================================
